---------------------------- MODULE Spec2Model ----------------------------
(***************************************************************************)
(* Model of the ReAct agent (scripts/react_agent.py) and of the TF-IDF     *)
(* retrieval engine (scripts/search_articles.py).                          *)
(*                                                                         *)
(* Python strings are sequences of tokens.  A token is one structural      *)
(* character ("[", "]", ",", "=", the double quote, " ", "\n", "-", a      *)
(* digit), one of the two markers "Action:" and "Thought:" (which the code *)
(* only ever looks for as a whole), or a word of letters that contains     *)
(* none of the former.  Every string operation of the code is written on   *)
(* these sequences position by position.                                   *)
(***************************************************************************)
EXTENDS Integers, Sequences, FiniteSets, TLC

(***************************************************************************)
(* Bounds of the model.                                                    *)
(***************************************************************************)
MaxSteps == 3
MaxLineLen == 4
MaxDocs == 3
MaxK == 2
MaxOutLen == 4
MaxRuns == 2
MaxClock == 2
TICKS_PER_SECOND == 2

(***************************************************************************)
(* Python string primitives on token sequences.                            *)
(***************************************************************************)
QUOTE == "\""
NL == "\n"
SP == " "

\* str.isspace() of one token
IsSpace(c) == c \in {SP, NL}

\* s[i:j] with 0-based Python indices 0 <= i, j <= len(s)
Slice(s, i, j) == IF j <= i THEN <<>> ELSE SubSeq(s, i + 1, j)

\* s.find(c): 0-based index of the first c, -1 when there is none
Find(s, c) ==
    IF \E i \in 1..Len(s) : s[i] = c
    THEN (CHOOSE i \in 1..Len(s) : s[i] = c /\ \A j \in 1..(i - 1) : s[j] # c) - 1
    ELSE -1

\* s.rfind(c): 0-based index of the last c, -1 when there is none
RFind(s, c) ==
    IF \E i \in 1..Len(s) : s[i] = c
    THEN (CHOOSE i \in 1..Len(s) : s[i] = c /\ \A j \in (i + 1)..Len(s) : s[j] # c) - 1
    ELSE -1

\* s.lstrip(chars), s.rstrip(chars), s.strip(chars)
RECURSIVE LStripSet(_, _)
LStripSet(s, chars) ==
    IF s # <<>> /\ Head(s) \in chars THEN LStripSet(Tail(s), chars) ELSE s

RECURSIVE RStripSet(_, _)
RStripSet(s, chars) ==
    IF s # <<>> /\ s[Len(s)] \in chars
    THEN RStripSet(SubSeq(s, 1, Len(s) - 1), chars)
    ELSE s

StripSet(s, chars) == RStripSet(LStripSet(s, chars), chars)

\* s.strip()
Strip(s) == StripSet(s, {SP, NL})

\* s.split(sep): the list of fields, always at least one
RECURSIVE Split(_, _)
Split(s, sep) ==
    LET i == Find(s, sep)
    IN  IF i = -1 THEN <<s>>
        ELSE <<Slice(s, 0, i)>> \o Split(Slice(s, i + 1, Len(s)), sep)

\* s.split(sep, 1)
SplitOnce(s, sep) ==
    LET i == Find(s, sep)
    IN  IF i = -1 THEN <<s>>
        ELSE <<Slice(s, 0, i), Slice(s, i + 1, Len(s))>>

\* sep.join(parts)
RECURSIVE Join(_, _)
Join(parts, sep) ==
    IF parts = <<>> THEN <<>>
    ELSE IF Len(parts) = 1 THEN parts[1]
    ELSE parts[1] \o sep \o Join(Tail(parts), sep)

\* needle in s, for a one-token needle
Contains(s, c) == \E i \in 1..Len(s) : s[i] = c

\* needle in s, for a substring
IsSubstring(needle, s) ==
    \E i \in 0..(Len(s) - Len(needle)) : Slice(s, i, i + Len(needle)) = needle

(***************************************************************************)
(* parse_action                                                            *)
(***************************************************************************)
ACTION_PREFIX == "Action:"
THOUGHT_PREFIX == "Thought:"

\* line.startswith("Action:")
StartsWithAction(line) == line # <<>> /\ line[1] = ACTION_PREFIX

\* the Optional result: None, or the pair (name, args)
None == [ok |-> FALSE, name |-> <<>>, args |-> <<>>]
Pair(name, args) == [ok |-> TRUE, name |-> name, args |-> args]

\* args[key] = val on a dict, the dict being a function on its keys
DictSet(d, key, val) ==
    [x \in (DOMAIN d) \cup {key} |-> IF x = key THEN val ELSE d[x]]

\* dict.get(key, default)
DictGet(d, key, default) == IF key \in DOMAIN d THEN d[key] ELSE default

\* val.strip().strip('"')
ArgValueKeepQuotes(val) == Strip(val)
ArgValue(val) == StripSet(Strip(val), {QUOTE})

\* the loop over inner.split(","): fields without "=" are skipped
RECURSIVE ParseFields(_, _)
ParseFields(fields, args) ==
    IF fields = <<>> THEN args
    ELSE LET field == Head(fields)
             kv == SplitOnce(field, "=")
         IN  IF Contains(field, "=")
             THEN ParseFields(Tail(fields),
                      DictSet(args, Strip(kv[1]), ArgValue(kv[2])))
             ELSE ParseFields(Tail(fields), args)

\* lb, rb = s.find("["), s.rfind("]")
LeftBracket(s) == Find(s, "[")
RightBracketFirst(s) == Find(s, "]")
RightBracket(s) == RFind(s, "]")

\* if lb == -1 or rb == -1 or rb < lb: return None
BracketsFailNoRb(lb, rb) == lb = -1
BracketsFail(lb, rb) == lb = -1 \/ rb = -1 \/ rb < lb

parse_action(line) ==
    IF ~StartsWithAction(line) THEN None
    ELSE LET s == Strip(Slice(line, 1, Len(line)))
             lb == LeftBracket(s)
             rb == RightBracket(s)
         IN  IF BracketsFail(lb, rb) THEN None
             ELSE LET name == Strip(Slice(s, 0, lb))
                      inner == Strip(Slice(s, lb + 1, rb))
                  IN  Pair(name,
                           IF inner # <<>>
                           THEN ParseFields(Split(inner, ","), <<>>)
                           ELSE <<>>)

(***************************************************************************)
(* ReActAgent._parse_llm_output                                            *)
(***************************************************************************)
DEFAULT_ACTION_LINE ==
    <<ACTION_PREFIX, SP, "finish", "[", "answer", "=", QUOTE, "(no answer)", QUOTE, "]">>

\* the 0-based indices just after each "Action:" marker, i.e. where the rest
\* of the pattern Action:\s*(.+?)(?:\n|$) has to match
MarkerEnds(out, marker) == {i \in 1..Len(out) : out[i] = marker}

\* end of the whitespace run that starts at 0-based index p
RECURSIVE SpaceRunEnd(_, _)
SpaceRunEnd(out, p) ==
    IF p < Len(out) /\ IsSpace(out[p + 1]) THEN SpaceRunEnd(out, p + 1) ELSE p

\* end of the line that holds 0-based index p: the index of the next "\n",
\* or len(out)
RECURSIVE LineEnd(_, _)
LineEnd(out, p) ==
    IF p < Len(out) /\ out[p + 1] # NL THEN LineEnd(out, p + 1) ELSE p

\* Where group 1 of Action:\s*(.+?)(?:\n|$) starts when the marker ends at p:
\* \s* is greedy, so it takes the whole whitespace run; when the run reaches
\* the end of the string it gives characters back, and (.+?) then starts at
\* the last blank of the run that is not a line break.  -1: no match at p.
GroupStart(out, p) ==
    LET q == SpaceRunEnd(out, p)
        back == {j \in p..(q - 1) : out[j + 1] # NL}
    IN  IF q < Len(out) THEN q
        ELSE IF back # {} THEN CHOOSE j \in back : \A j2 \in back : j2 <= j
        ELSE -1

\* re.search(r"Action:\s*(.+?)(?:\n|$)", out): group(1), or no match
ActionSearch(out) ==
    LET ok == {p \in MarkerEnds(out, ACTION_PREFIX) : GroupStart(out, p) # -1}
    IN  IF ok = {} THEN [found |-> FALSE, group |-> <<>>]
        ELSE LET p == CHOOSE p1 \in ok : \A p2 \in ok : p1 <= p2
                 st == GroupStart(out, p)
             IN  [found |-> TRUE, group |-> Slice(out, st, LineEnd(out, st + 1))]

\* re.search(r"Thought:\s*(.*?)(?=Action:|$)", out, re.DOTALL).group(1).strip():
\* from the first "Thought:" to the next "Action:" or the end
ThoughtSearch(out) ==
    LET ts == MarkerEnds(out, THOUGHT_PREFIX)
        t == CHOOSE t1 \in ts : \A t2 \in ts : t1 <= t2
        as == {a \in MarkerEnds(out, ACTION_PREFIX) : a > t}
        e == IF as = {} THEN Len(out)
             ELSE (CHOOSE a1 \in as : \A a2 \in as : a1 <= a2) - 1
    IN  Strip(Slice(out, t, e))

\* returns the pair (thought, action_line)
parse_llm_output(out) ==
    IF Contains(out, ACTION_PREFIX)
    THEN LET thought == IF Contains(out, THOUGHT_PREFIX)
                        THEN ThoughtSearch(out)
                        ELSE Strip(SplitOnce(out, ACTION_PREFIX)[1])
             m == ActionSearch(out)
         IN  [thought |-> thought,
              action_line |-> IF m.found
                              THEN <<ACTION_PREFIX, SP>> \o Strip(m.group)
                              ELSE DEFAULT_ACTION_LINE]
    ELSE [thought |-> Strip(out), action_line |-> DEFAULT_ACTION_LINE]

(***************************************************************************)
(* search_articles.py: the retrieval engine.                               *)
(*                                                                         *)
(* A float is modelled in fixed point, in thousandths; the score of a      *)
(* document is the cosine in hundredths.  Every formula is the code's.     *)
(***************************************************************************)
\* the tokens that are runs of [a-zA-Z0-9']; every other token separates
WordTokens ==
    {"search", "finish", "lookup", "query", "answer", "k", "x", "X", "ai",
     "computing", "cloud", "0", "1", "2", "3", "4", "5", "6", "7", "8", "9"}

\* text.lower() of one word token
Lower(c) == IF c = "X" THEN "x" ELSE c

\* re.findall(r"[a-zA-Z0-9']+", text.lower()): neighbouring word tokens are
\* one run; a marker ends in ":", which closes the run
RECURSIVE TokenizeFrom(_, _, _)
TokenizeFrom(text, cur, acc) ==
    LET closed == IF cur = "" THEN acc ELSE Append(acc, cur)
    IN  IF text = <<>> THEN closed
        ELSE LET c == Head(text)
             IN  IF c = ACTION_PREFIX
                 THEN TokenizeFrom(Tail(text), "", Append(acc, cur \o "action"))
                 ELSE IF c = THOUGHT_PREFIX
                 THEN TokenizeFrom(Tail(text), "", Append(acc, cur \o "thought"))
                 ELSE IF c \in WordTokens
                 THEN TokenizeFrom(Tail(text), cur \o Lower(c), acc)
                 ELSE TokenizeFrom(Tail(text), "", closed)

tokenize(text) == TokenizeFrom(text, "", <<>>)

\* set(tokens)
TokenSet(tokens) == {tokens[i] : i \in 1..Len(tokens)}

\* counts[token]
Count(tokens, t) == Cardinality({i \in 1..Len(tokens) : tokens[i] = t})

\* max(a, b)
Max(a, b) == IF a >= b THEN a ELSE b

\* df[t]: the number of documents whose token set holds t
compute_df(doc_tokens) ==
    [t \in UNION {TokenSet(doc_tokens[i]) : i \in 1..Len(doc_tokens)} |->
        Cardinality({i \in 1..Len(doc_tokens) : t \in TokenSet(doc_tokens[i])})]

\* 1000 * math.log(n), n = 1..20
LnMilli ==
    <<0, 693, 1099, 1386, 1609, 1792, 1946, 2079, 2197, 2303,
      2398, 2485, 2565, 2639, 2708, 2773, 2833, 2890, 2944, 2996>>

\* idf[t] = math.log((n_docs + 1) / (df[t] + 0.5)) + 1, in thousandths:
\* the quotient is (2 n_docs + 2) / (2 df[t] + 1)
Idf(df, n_docs) ==
    [t \in DOMAIN df |-> LnMilli[2 * n_docs + 2] - LnMilli[2 * df[t] + 1] + 1000]

\* tfidf_vector: {t: tf[t] * idf.get(t, 0.0)}, tf[t] = counts[t] / max(1, len)
tfidf_vector(tokens, idf) ==
    [t \in TokenSet(tokens) |->
        (Count(tokens, t) * (IF t \in DOMAIN idf THEN idf[t] ELSE 0))
            \div Max(1, Len(tokens))]

\* sum(f[k] for k in keys)
RECURSIVE SumOver(_, _)
SumOver(f, keys) ==
    IF keys = {} THEN 0
    ELSE LET t == CHOOSE t1 \in keys : TRUE
         IN  f[t] + SumOver(f, keys \ {t})

\* math.sqrt, rounded down: lo * lo <= n < hi * hi
RECURSIVE ISqrtIn(_, _, _)
ISqrtIn(n, lo, hi) ==
    IF hi - lo <= 1 THEN lo
    ELSE LET mid == (lo + hi) \div 2
         IN  IF mid * mid <= n THEN ISqrtIn(n, mid, hi) ELSE ISqrtIn(n, lo, mid)

ISqrt(n) == ISqrtIn(n, 0, 4000)

\* a.get(k, 0.0)
VecGet(a, t) == IF t \in DOMAIN a THEN a[t] ELSE 0

\* cosine(a, b) in hundredths; with a zero norm the code divides the zero dot
\* product by 1e-12, which is 0.0
cosine(a, b) ==
    IF DOMAIN a = {} \/ DOMAIN b = {} THEN 0
    ELSE LET keys == (DOMAIN a) \cup (DOMAIN b)
             dot == SumOver([t \in keys |-> VecGet(a, t) * VecGet(b, t)], keys)
             na == ISqrt(SumOver([t \in DOMAIN a |-> a[t] * a[t]], DOMAIN a))
             nb == ISqrt(SumOver([t \in DOMAIN b |-> b[t] * b[t]], DOMAIN b))
         IN  IF na * nb = 0 THEN 0 ELSE (dot * 100) \div (na * nb)

\* tuple comparison of (score, index) pairs
PairLessSmallerIndexFirst(p, q) == p[1] < q[1] \/ (p[1] = q[1] /\ p[2] > q[2])
PairLess(p, q) == p[1] < q[1] \/ (p[1] = q[1] /\ p[2] < q[2])

\* scored.sort(reverse=True): descending in the tuple order
RECURSIVE SortReverse(_)
SortReverse(pairs) ==
    IF pairs = {} THEN <<>>
    ELSE LET top == CHOOSE p \in pairs : \A q \in pairs : q = p \/ PairLess(q, p)
         IN  <<top>> \o SortReverse(pairs \ {top})

\* seq[:k] of Python: a negative k counts from the end
SliceTo(seq, k) ==
    IF k >= 0 THEN SubSeq(seq, 1, IF k < Len(seq) THEN k ELSE Len(seq))
    ELSE SubSeq(seq, 1, Max(Len(seq) + k, 0))

SNIPPET_TOKENS == 30

\* scored = [(cosine(q_vec, v), i) for i, v in enumerate(doc_vecs)], sorted
Scored(query, corpus) ==
    LET doc_tokens == [i \in 1..Len(corpus) |-> corpus[i].tokens]
        idf == Idf(compute_df(doc_tokens), Len(corpus))
        q_vec == tfidf_vector(tokenize(query), idf)
    IN  SortReverse({<<cosine(q_vec, tfidf_vector(doc_tokens[i], idf)), i>> :
                        i \in 1..Len(corpus)})

\* one entry of results
Result(corpus, pair) ==
    [id |-> corpus[pair[2]].id,
     score |-> pair[1],
     snippet |-> Join([j \in 1..Len(SliceTo(corpus[pair[2]].tokens, SNIPPET_TOKENS))
                          |-> <<corpus[pair[2]].tokens[j]>>], <<SP>>)]

\* scored[:k]
TopKPlusOne(scored, k) == SliceTo(scored, k + 1)
TopK(scored, k) == SliceTo(scored, k)

search_corpus(query, corpus, k) ==
    LET top == TopK(Scored(query, corpus), k)
    IN  [n \in 1..Len(top) |-> Result(corpus, top[n])]

(***************************************************************************)
(* json.dumps and json.loads on token sequences.  A JSON value is a record *)
(* [t, v]: a string (token sequence), a number, an array (sequence of      *)
(* values) or an object (sequence of <<key, value>> pairs, in order).  The *)
(* blanks and line breaks of indent=2 stand between JSON tokens, where     *)
(* json.loads skips them, and are left out.                                *)
(***************************************************************************)
JStr(s) == [t |-> "str", v |-> s]
JNum(n) == [t |-> "num", v |-> n]
JArr(items) == [t |-> "arr", v |-> items]
JObj(pairs) == [t |-> "obj", v |-> pairs]

RECURSIVE JsonDumps(_)
JsonDumps(j) ==
    CASE j.t = "str" -> <<QUOTE>> \o j.v \o <<QUOTE>>
      [] j.t = "num" -> <<ToString(j.v)>>
      [] j.t = "arr" ->
            <<"[">> \o Join([i \in 1..Len(j.v) |-> JsonDumps(j.v[i])], <<",">>)
                    \o <<"]">>
      [] j.t = "obj" ->
            <<"{">> \o Join([i \in 1..Len(j.v) |->
                                <<QUOTE>> \o j.v[i][1] \o <<QUOTE, ":">>
                                    \o JsonDumps(j.v[i][2])], <<",">>)
                    \o <<"}">>

\* the numbers the model writes: scores in hundredths
NumberRange == 0..150
IsNumberTok(c) == \E n \in NumberRange : ToString(n) = c
NumberOf(c) == CHOOSE n \in NumberRange : ToString(n) = c

\* a parse: failed, or the value read and the 1-based index after it
JFail == [ok |-> FALSE, val |-> JNum(0), next |-> 0]
JOk(val, next) == [ok |-> TRUE, val |-> val, next |-> next]

\* a JSON string starting at toks[i]: up to the next double quote
JString(toks, i) ==
    IF i > Len(toks) \/ toks[i] # QUOTE THEN JFail
    ELSE LET close == {j \in (i + 1)..Len(toks) : toks[j] = QUOTE}
         IN  IF close = {} THEN JFail
             ELSE LET j == CHOOSE j1 \in close : \A j2 \in close : j1 <= j2
                  IN  JOk(JStr(SubSeq(toks, i + 1, j - 1)), j + 1)

RECURSIVE JValue(_, _), JMembers(_, _, _), JElements(_, _, _)
JValue(toks, i) ==
    IF i > Len(toks) THEN JFail
    ELSE IF toks[i] = "{"
    THEN IF i < Len(toks) /\ toks[i + 1] = "}" THEN JOk(JObj(<<>>), i + 2)
         ELSE JMembers(toks, i + 1, <<>>)
    ELSE IF toks[i] = "["
    THEN IF i < Len(toks) /\ toks[i + 1] = "]" THEN JOk(JArr(<<>>), i + 2)
         ELSE JElements(toks, i + 1, <<>>)
    ELSE IF toks[i] = QUOTE THEN JString(toks, i)
    ELSE IF IsNumberTok(toks[i]) THEN JOk(JNum(NumberOf(toks[i])), i + 1)
    ELSE JFail

JMembers(toks, i, pairs) ==
    LET key == JString(toks, i)
    IN  IF ~key.ok \/ key.next > Len(toks) \/ toks[key.next] # ":" THEN JFail
        ELSE LET val == JValue(toks, key.next + 1)
                 more == Append(pairs, <<key.val.v, val.val>>)
             IN  IF ~val.ok \/ val.next > Len(toks) THEN JFail
                 ELSE IF toks[val.next] = "," THEN JMembers(toks, val.next + 1, more)
                 ELSE IF toks[val.next] = "}" THEN JOk(JObj(more), val.next + 1)
                 ELSE JFail

JElements(toks, i, items) ==
    LET val == JValue(toks, i)
        more == Append(items, val.val)
    IN  IF ~val.ok \/ val.next > Len(toks) THEN JFail
        ELSE IF toks[val.next] = "," THEN JElements(toks, val.next + 1, more)
        ELSE IF toks[val.next] = "]" THEN JOk(JArr(more), val.next + 1)
        ELSE JFail

\* json.loads(text): JSONDecodeError unless the whole text is one value
JsonLoads(toks) ==
    LET r == JValue(toks, 1)
    IN  IF r.ok /\ r.next = Len(toks) + 1 THEN r ELSE JFail

\* "results" in data, and data["results"], for a dict
HasKey(obj, key) == \E i \in 1..Len(obj.v) : obj.v[i][1] = key
GetKey(obj, key) ==
    obj.v[CHOOSE i \in 1..Len(obj.v) :
              obj.v[i][1] = key /\ \A j \in (i + 1)..Len(obj.v) : obj.v[j][1] # key][2]

\* a SearchResult dict as a JSON value
ResultJson(r) ==
    JObj(<< <<(<<"id">>), JStr(<<r.id>>)>>,
            <<(<<"score">>), JNum(r.score)>>,
            <<(<<"snippet">>), JStr(r.snippet)>> >>)

ResultsJson(results) == JArr([i \in 1..Len(results) |-> ResultJson(results[i])])

\* obs = json.dumps({"results": results}, indent=2)
SearchObservation(results) ==
    JsonDumps(JObj(<< <<(<<"results">>), ResultsJson(results)>> >>))

(***************************************************************************)
(* Step, format_history, make_prompt                                       *)
(***************************************************************************)
Step(thought, action, observation) ==
    [thought |-> thought, action |-> action, observation |-> observation]

StepLines(step) ==
    << <<THOUGHT_PREFIX, SP>> \o step.thought,
       <<ACTION_PREFIX, SP>> \o step.action,
       <<"Observation:", SP>> \o step.observation >>

RECURSIVE HistoryLines(_)
HistoryLines(trajectory) ==
    IF trajectory = <<>> THEN <<>>
    ELSE StepLines(Head(trajectory)) \o HistoryLines(Tail(trajectory))

format_history_last(trajectory) ==
    IF trajectory = <<>> THEN <<>>
    ELSE Join(StepLines(trajectory[Len(trajectory)]), <<NL>>)
format_history(trajectory) == Join(HistoryLines(trajectory), <<NL>>)

SYSTEM_PREAMBLE == <<"You are a helpful ReAct agent. ...">>

make_prompt(user_query, trajectory) ==
    LET history_block == format_history(trajectory)
    IN  IF history_block # <<>>
        THEN SYSTEM_PREAMBLE \o <<NL, NL, "User Question: ">> \o user_query
                 \o <<NL, NL>> \o history_block \o <<NL, NL, "Next step:">>
        ELSE SYSTEM_PREAMBLE \o <<NL, NL, "User Question: ">> \o user_query
                 \o <<NL, NL, "Begin:">>

(***************************************************************************)
(* ReActAgent._generate_fallback_answer                                    *)
(***************************************************************************)
DONE_OBS == <<"done">>
NO_FINAL_ANSWER == <<"(max steps reached, no final answer)">>

\* what one observation adds to all_results; a text that does not decode, or
\* decodes to something that is no dict with "results", adds nothing
ResultsIn(observation) ==
    IF observation = <<>> \/ observation = DONE_OBS THEN <<>>
    ELSE LET data == JsonLoads(observation)
         IN  IF data.ok /\ data.val.t = "obj" /\ HasKey(data.val, <<"results">>)
             THEN GetKey(data.val, <<"results">>).v
             ELSE <<>>

RECURSIVE AllResults(_)
AllResults(trajectory) ==
    IF trajectory = <<>> THEN <<>>
    ELSE ResultsIn(Head(trajectory).observation) \o AllResults(Tail(trajectory))

FALLBACK_RESULTS == 3

\* all_results[:3]
FallbackSliceLast(all_results) ==
    SubSeq(all_results, Max(Len(all_results) - FALLBACK_RESULTS, 0) + 1, Len(all_results))
FallbackSlice(all_results) == SliceTo(all_results, FALLBACK_RESULTS)

generate_fallback_answer(trajectory) ==
    LET all_results == AllResults(trajectory)
    IN  IF all_results # <<>>
        THEN <<"Based on search results: ">> \o JsonDumps(JArr(FallbackSlice(all_results)))
        ELSE NO_FINAL_ANSWER

(***************************************************************************)
(* ReActAgent.run as a state machine.                                      *)
(*   pc: "idle" before the first call of run; "loop" at the head of the    *)
(*   for loop; "returned" after run returned; "raised_llm" / "raised_io"   *)
(*   after an exception of the language-model call / of save_run left run. *)
(* History variables of the current call of run:                           *)
(*   llm_calls  the prompts passed to self.llm, in order                   *)
(*   save_calls the number of calls of save_run; saved: the payloads       *)
(*              written                                                    *)
(*   terminal   the terminal paths taken ("DONE", "MAX_STEPS_REACHED")     *)
(*   collected  the results search_corpus returned, in step order          *)
(*   last       what the last loop iteration did, and on which completion  *)
(* What outlives a call of run:                                            *)
(*   now        the wall clock, in ticks (TICKS_PER_SECOND ticks a second) *)
(*   files      the directory data/agent_runs: path -> content             *)
(*   runs       the number of calls of run so far                          *)
(*   save_log   history: every write of save_run (tick, path, payload)     *)
(*   held       the result dictionaries run has returned, in order         *)
(***************************************************************************)
VARIABLES max_steps, allow_tools, corpus, user_query, trajectory, step_idx,
          pc, result, saved, save_calls, terminal, llm_calls, collected, last,
          now, files, runs, save_log, held,
          p_line, p_result, p_pc,
          s_query, s_corpus, s_k, s_results, s_pc,
          o_out, o_result, o_pc

configVars == <<max_steps, allow_tools, corpus>>
runVars == <<user_query, trajectory, step_idx, pc, result, saved, save_calls,
             terminal, llm_calls, collected, last>>
parseVars == <<p_line, p_result, p_pc>>
searchVars == <<s_query, s_corpus, s_k, s_results, s_pc>>
worldVars == <<now, files, runs, save_log, held>>
outVars == <<o_out, o_result, o_pc>>
vars == <<configVars, runVars, worldVars, parseVars, searchVars, outVars>>

\* the corpus of the example: three documents
ExampleCorpus ==
    << [id |-> "d1", tokens |-> <<"cloud", "computing", "ai">>],
       [id |-> "d2", tokens |-> <<"quantum", "computing", "research">>],
       [id |-> "d3", tokens |-> <<"ai", "ethics", "policy">>] >>

RunCorpora == {<<>>, ExampleCorpus}

\* AgentConfig.allow_tools: the default and a wider set
DEFAULT_ALLOW_TOOLS == <<"search", "finish">>
AllowToolsChoices == {DEFAULT_ALLOW_TOOLS, <<"search", "finish", "lookup">>}

UserQueries == {<<"what", SP, "is", SP, "ai">>}

\* completions of the language model
OutFinish ==
    <<THOUGHT_PREFIX, SP, "hm", NL,
      ACTION_PREFIX, SP, "finish", "[", "answer", "=", QUOTE, "X", QUOTE, "]">>
OutActionFinish ==
    <<ACTION_PREFIX, SP, "finish", "[", "answer", "=", QUOTE, "X", QUOTE, "]">>
OutBareFinish == <<"finish", "[", "answer", "=", QUOTE, "X", QUOTE, "]">>
OutFinishNoArgs == <<ACTION_PREFIX, SP, "finish", "[", "]">>
OutUnbalanced ==
    <<ACTION_PREFIX, SP, "search", "[", "query", "=", QUOTE, "x", QUOTE>>
OutNoBracket == <<"hm", NL, ACTION_PREFIX, SP, "search">>
OutSearch ==
    <<THOUGHT_PREFIX, SP, "hm", NL,
      ACTION_PREFIX, SP, "search", "[", "query", "=", QUOTE, "ai", SP, "computing",
      QUOTE, ",", SP, "k", "=", "2", "]">>
OutSearchDefaultK ==
    <<ACTION_PREFIX, SP, "search", "[", "query", "=", QUOTE, "ai", QUOTE, "]">>
OutSearchBadK ==
    <<ACTION_PREFIX, SP, "search", "[", "query", "=", "x", ",", "k", "=", "x", "]">>
OutSearchNegK ==
    <<ACTION_PREFIX, SP, "search", "[", "query", "=", QUOTE, "ai", QUOTE, ",", SP,
      "k", "=", "-", "1", "]">>
OutUnknown == <<ACTION_PREFIX, SP, "lookup", "[", "x", "]">>

LLMOutputs ==
    {OutFinish, OutActionFinish, OutBareFinish, OutFinishNoArgs, OutUnbalanced, OutNoBracket,
     OutSearch, OutSearchDefaultK, OutSearchBadK, OutSearchNegK, OutUnknown}

INVALID_OBS ==
    <<"Invalid action format. Use: search[query=\"...\", k=3] or finish[answer=\"...\"]">>

\* obs = f"Unknown tool: {name}. Available tools: search, finish"
UnknownToolObs(name) ==
    <<"Unknown tool: ">> \o name
        \o <<". Available tools: ", "search", ",", SP, "finish">>

\* int(text): blanks around, a sign, then digits; anything else is a ValueError
Digits == {"0", "1", "2", "3", "4", "5", "6", "7", "8", "9"}
DigitVal(c) == CHOOSE d \in 0..9 : ToString(d) = c

RECURSIVE DigitsVal(_, _)
DigitsVal(ds, acc) ==
    IF ds = <<>> THEN acc ELSE DigitsVal(Tail(ds), 10 * acc + DigitVal(Head(ds)))

IsIntText(text) ==
    LET t == Strip(text)
        ds == IF t # <<>> /\ t[1] \in {"-", "+"} THEN Tail(t) ELSE t
    IN  ds # <<>> /\ \A i \in 1..Len(ds) : ds[i] \in Digits

IntOf(text) ==
    LET t == Strip(text)
    IN  IF t[1] = "-" THEN 0 - DigitsVal(Tail(t), 0)
        ELSE IF t[1] = "+" THEN DigitsVal(Tail(t), 0)
        ELSE DigitsVal(t, 0)

DEFAULT_K == 3

\* try: k = int(args.get("k", 3)) except ValueError: k = 3
SearchK(args) ==
    IF <<"k">> \in DOMAIN args
    THEN IF IsIntText(args[<<"k">>]) THEN IntOf(args[<<"k">>]) ELSE DEFAULT_K
    ELSE DEFAULT_K

\* for step_idx in range(self.config.max_steps): is there another iteration
RangeHasNextInclusive(i, n) == i <= n
RangeHasNext(i, n) == i < n

\* the payload save_run writes
Payload(query, final) == [query |-> query, result |-> final]

\* timestamp = datetime.now().strftime("%Y%m%d_%H%M%S"): the clock reading
\* with everything below the second dropped
TimestampTick(t) == ToString(t)
Timestamp(t) == ToString(t \div TICKS_PER_SECOND)

\* out_path = os.path.join(out_dir, f"run_{timestamp}.json")
RunPath(t) == <<"data/agent_runs", "/", "run_", Timestamp(t), ".json">>

\* with open(out_path, "w") as f: json.dump(payload, f): the file is created
\* or truncated, and then holds the payload alone
FileWrite(fs, path, payload) ==
    [p \in DOMAIN fs \cup {path} |-> IF p = path THEN payload ELSE fs[p]]

SaveEntry(t, payload) == [at |-> t, path |-> RunPath(t), payload |-> payload]

\* final = {"answer": ..., "trajectory": [asdict(s) for s in self.trajectory]}
Final(answer, traj) == [answer |-> answer, trajectory |-> traj]

\* The dictionary the caller of run holds.  Its "trajectory" is the list the
\* comprehension [asdict(s) for s in self.trajectory] built: a new list of
\* new dictionaries, which shares no object with self.trajectory (shared is
\* FALSE); steps is its content at the return.
HeldResultShared(final) ==
    [answer |-> final.answer, steps |-> final.trajectory, shared |-> TRUE]
HeldResult(final) ==
    [answer |-> final.answer, steps |-> final.trajectory, shared |-> FALSE]

\* what the caller reads in a held dictionary now: a list shared with the
\* agent shows what self.trajectory holds now
HeldView(h) ==
    [answer |-> h.answer, trajectory |-> IF h.shared THEN trajectory ELSE h.steps]

NoLast == [kind |-> "none", out |-> <<>>]

RunInit ==
    /\ user_query = <<>>
    /\ trajectory = <<>>
    /\ step_idx = 0
    /\ pc = "idle"
    /\ result = <<>>
    /\ saved = <<>>
    /\ save_calls = 0
    /\ terminal = <<>>
    /\ llm_calls = <<>>
    /\ collected = <<>>
    /\ last = NoLast

WorldInit ==
    /\ now = 0
    /\ files = [p \in {} |-> <<>>]
    /\ runs = 0
    /\ save_log = <<>>
    /\ held = <<>>

ConfigInit ==
    /\ max_steps \in 1..MaxSteps
    /\ allow_tools \in AllowToolsChoices
    /\ corpus \in RunCorpora

ParseIdle == p_line = <<>> /\ p_result = None /\ p_pc = "off"
OutputIdle ==
    o_out = <<>> /\ o_result = [thought |-> <<>>, action_line |-> <<>>] /\ o_pc = "off"
SearchIdle ==
    s_query = <<>> /\ s_corpus = <<>> /\ s_k = 0 /\ s_results = <<>> /\ s_pc = "off"

Init == ConfigInit /\ RunInit /\ WorldInit /\ ParseIdle /\ SearchIdle /\ OutputIdle

\* run(user_query) is called: self.trajectory.clear()
RunStartNoClear(q) ==
    /\ pc \in {"idle", "returned", "raised_llm", "raised_io"}
    /\ runs < MaxRuns
    /\ user_query' = q
    /\ trajectory' = trajectory
    /\ step_idx' = 0
    /\ pc' = "loop"
    /\ result' = <<>>
    /\ saved' = <<>>
    /\ save_calls' = 0
    /\ terminal' = <<>>
    /\ llm_calls' = <<>>
    /\ collected' = <<>>
    /\ last' = NoLast
    /\ runs' = runs + 1
    /\ UNCHANGED <<now, files, save_log, held>>
    /\ UNCHANGED <<configVars, parseVars, searchVars, outVars>>

RunStart(q) ==
    /\ pc \in {"idle", "returned", "raised_llm", "raised_io"}
    /\ runs < MaxRuns
    /\ user_query' = q
    /\ trajectory' = <<>>
    /\ step_idx' = 0
    /\ pc' = "loop"
    /\ result' = <<>>
    /\ saved' = <<>>
    /\ save_calls' = 0
    /\ terminal' = <<>>
    /\ llm_calls' = <<>>
    /\ collected' = <<>>
    /\ last' = NoLast
    /\ runs' = runs + 1
    /\ UNCHANGED <<now, files, save_log, held>>
    /\ UNCHANGED <<configVars, parseVars, searchVars, outVars>>

\* prompt = make_prompt(...); out = self.llm(prompt) returned out
LLMCall(out) ==
    /\ pc = "loop"
    /\ RangeHasNext(step_idx, max_steps)
    /\ llm_calls' = Append(llm_calls, make_prompt(user_query, trajectory))

\* self.llm(prompt) raises: the exception leaves run
LLMRaisesCleared ==
    /\ pc = "loop"
    /\ RangeHasNext(step_idx, max_steps)
    /\ llm_calls' = Append(llm_calls, make_prompt(user_query, trajectory))
    /\ pc' = "raised_llm"
    /\ trajectory' = <<>>
    /\ last' = [kind |-> "raise", out |-> <<>>]
    /\ UNCHANGED <<user_query, step_idx, result, saved, save_calls, terminal, collected>>
    /\ UNCHANGED <<configVars, worldVars, parseVars, searchVars, outVars>>

LLMRaises ==
    /\ pc = "loop"
    /\ RangeHasNext(step_idx, max_steps)
    /\ llm_calls' = Append(llm_calls, make_prompt(user_query, trajectory))
    /\ pc' = "raised_llm"
    /\ last' = [kind |-> "raise", out |-> <<>>]
    /\ UNCHANGED <<user_query, trajectory, step_idx, result, saved, save_calls,
                   terminal, collected>>
    /\ UNCHANGED <<configVars, worldVars, parseVars, searchVars, outVars>>

\* the step is appended and the loop goes to its next iteration
Continue(out, kind, step) ==
    /\ trajectory' = Append(trajectory, step)
    /\ step_idx' = step_idx + 1
    /\ last' = [kind |-> kind, out |-> out]
    /\ UNCHANGED <<user_query, pc, result, saved, save_calls, terminal>>
    /\ UNCHANGED <<configVars, worldVars, parseVars, searchVars, outVars>>

\* save_run(user_query, final) and return final; io_ok: the write succeeds
SaveNoReturn(final, io_ok, how) ==
    /\ save_calls' = save_calls + 1
    /\ saved' = IF io_ok THEN Append(saved, Payload(user_query, final)) ELSE saved
    /\ files' = IF io_ok THEN FileWrite(files, RunPath(now), Payload(user_query, final))
                 ELSE files
    /\ save_log' = IF io_ok THEN Append(save_log, SaveEntry(now, Payload(user_query, final)))
                    ELSE save_log
    /\ result' = result
    /\ held' = held
    /\ pc' = IF io_ok THEN "loop" ELSE "raised_io"
    /\ terminal' = Append(terminal, how)
    /\ UNCHANGED <<now, runs>>

SaveAndReturn(final, io_ok, how) ==
    /\ save_calls' = save_calls + 1
    /\ saved' = IF io_ok THEN Append(saved, Payload(user_query, final)) ELSE saved
    /\ files' = IF io_ok THEN FileWrite(files, RunPath(now), Payload(user_query, final))
                 ELSE files
    /\ save_log' = IF io_ok THEN Append(save_log, SaveEntry(now, Payload(user_query, final)))
                    ELSE save_log
    /\ result' = IF io_ok THEN <<final>> ELSE result
    /\ held' = IF io_ok THEN Append(held, HeldResult(final)) ELSE held
    /\ pc' = IF io_ok THEN "returned" ELSE "raised_io"
    /\ terminal' = Append(terminal, how)
    /\ UNCHANGED <<now, runs>>

\* if not parsed: the diagnostic step, continue
StepInvalid(out) ==
    /\ LLMCall(out)
    /\ LET po == parse_llm_output(out)
       IN  /\ ~parse_action(po.action_line).ok
           /\ Continue(out, "invalid", Step(po.thought, po.action_line, INVALID_OBS))
    /\ UNCHANGED collected

\* name == "search"
StepSearch(out) ==
    /\ LLMCall(out)
    /\ LET po == parse_llm_output(out)
           parsed == parse_action(po.action_line)
       IN  /\ parsed.ok
           /\ parsed.name = <<"search">>
           /\ LET results == search_corpus(DictGet(parsed.args, <<"query">>, <<>>),
                                           corpus, SearchK(parsed.args))
              IN  /\ collected' = collected \o results
                  /\ Continue(out, "search",
                         Step(po.thought, po.action_line, SearchObservation(results)))

\* name == "finish": the step, the result, save_run, return
StepFinish(out, io_ok) ==
    /\ LLMCall(out)
    /\ LET po == parse_llm_output(out)
           parsed == parse_action(po.action_line)
       IN  /\ parsed.ok
           /\ parsed.name = <<"finish">>
           /\ trajectory' = Append(trajectory, Step(po.thought, po.action_line, DONE_OBS))
           /\ SaveAndReturn(Final(DictGet(parsed.args, <<"answer">>, <<>>), trajectory'),
                            io_ok, "DONE")
    /\ last' = [kind |-> "finish", out |-> out]
    /\ UNCHANGED <<user_query, step_idx, collected>>
    /\ UNCHANGED <<configVars, parseVars, searchVars, outVars>>

\* any other name
StepUnknown(out) ==
    /\ LLMCall(out)
    /\ LET po == parse_llm_output(out)
           parsed == parse_action(po.action_line)
       IN  /\ parsed.ok
           /\ parsed.name \notin {<<"search">>, <<"finish">>}
           /\ Continue(out, "unknown",
                  Step(po.thought, po.action_line, UnknownToolObs(parsed.name)))
    /\ UNCHANGED collected

\* the range is exhausted: the fallback answer, save_run, return
Exhausted(io_ok) ==
    /\ pc = "loop"
    /\ ~RangeHasNext(step_idx, max_steps)
    /\ SaveAndReturn(Final(generate_fallback_answer(trajectory), trajectory),
                     io_ok, "MAX_STEPS_REACHED")
    /\ last' = [kind |-> "exhausted", out |-> <<>>]
    /\ UNCHANGED <<user_query, trajectory, step_idx, llm_calls, collected>>
    /\ UNCHANGED <<configVars, parseVars, searchVars, outVars>>

\* The state of the control loop: RUNNING while the loop has another
\* iteration to take; MAX_STEPS_REACHED once step_idx has reached max_steps
\* without a finish (the fallback and save_run are all that is left to run);
\* after the return, the terminal path that ran.
RunState ==
    IF pc = "loop"
    THEN IF RangeHasNext(step_idx, max_steps) THEN "RUNNING" ELSE "MAX_STEPS_REACHED"
    ELSE IF pc = "returned" THEN terminal[Len(terminal)]
    ELSE IF pc = "idle" THEN "IDLE"
    ELSE "RAISED"

\* One call of run on a new agent, with every completion of LLMOutputs.
Next ==
    \/ \E q \in UserQueries : pc = "idle" /\ RunStart(q)
    \/ \E out \in LLMOutputs : StepInvalid(out)
    \/ \E out \in LLMOutputs : StepSearch(out)
    \/ \E out \in LLMOutputs, io_ok \in BOOLEAN : StepFinish(out, io_ok)
    \/ \E out \in LLMOutputs : StepUnknown(out)
    \/ LLMRaises
    \/ \E io_ok \in BOOLEAN : Exhausted(io_ok)

Spec == Init /\ [][Next]_vars

(***************************************************************************)
(* Calls of run one after the other on the same agent, while the clock     *)
(* goes on: at most MaxRuns calls, the clock read up to MaxClock ticks,    *)
(* two user queries and two completions.                                   *)
(***************************************************************************)
RunsQueries == UserQueries \cup {<<"what", SP, "is", SP, "cloud">>}

RunsOutputs == {OutActionFinish, OutUnbalanced}

RunsInit ==
    /\ max_steps \in {1, 2}
    /\ allow_tools = DEFAULT_ALLOW_TOOLS
    /\ corpus = <<>>
    /\ RunInit /\ WorldInit /\ ParseIdle /\ SearchIdle /\ OutputIdle

\* time passes
Tick ==
    /\ now < MaxClock
    /\ now' = now + 1
    /\ UNCHANGED <<files, runs, save_log, held>>
    /\ UNCHANGED <<configVars, runVars, parseVars, searchVars, outVars>>

RunsNext ==
    \/ \E q \in RunsQueries : RunStart(q)
    \/ \E out \in RunsOutputs : StepInvalid(out)
    \/ \E out \in RunsOutputs, io_ok \in BOOLEAN : StepFinish(out, io_ok)
    \/ LLMRaises
    \/ \E io_ok \in BOOLEAN : Exhausted(io_ok)
    \/ Tick

SpecRuns == RunsInit /\ [][RunsNext]_vars

(***************************************************************************)
(* parse_action on its own: every line of at most MaxLineLen tokens over   *)
(* the alphabet of the grammar, and the action lines of the completions.   *)
(***************************************************************************)
ParseAlphabet == {ACTION_PREFIX, "[", "]", "=", ",", SP, QUOTE, "x"}

BoundedSeq(S, n) == UNION {[1..m -> S] : m \in 0..n}

\* answers the model may put between the quotes of finish[answer="..."]:
\* a word, a sentence with commas, a text that itself starts and ends with
\* a double quote
QuotedAnswers ==
    {<<"X">>, <<"X", ",", SP, "x">>, <<"a", ",", "b", ",", "c">>, <<QUOTE, "X", QUOTE>>}

FinishLine(v) ==
    <<ACTION_PREFIX, SP, "finish", "[", "answer", "=", QUOTE>> \o v \o <<QUOTE, "]">>

ParseLines ==
    BoundedSeq(ParseAlphabet, MaxLineLen)
        \cup {parse_llm_output(out).action_line : out \in LLMOutputs}
        \cup {FinishLine(v) : v \in QuotedAnswers}

FixedConfig ==
    max_steps = 1 /\ allow_tools = DEFAULT_ALLOW_TOOLS /\ corpus = <<>>

ParseInit ==
    /\ FixedConfig /\ RunInit /\ WorldInit /\ SearchIdle /\ OutputIdle
    /\ p_line \in ParseLines
    /\ p_result = None
    /\ p_pc = "start"

ParseLine ==
    /\ p_pc = "start"
    /\ p_result' = parse_action(p_line)
    /\ p_pc' = "done"
    /\ UNCHANGED <<p_line, configVars, runVars, worldVars, searchVars, outVars>>

ParseNext == ParseLine

SpecParse == ParseInit /\ [][ParseNext]_vars

(***************************************************************************)
(* search_corpus on its own: every corpus of at most MaxDocs documents     *)
(* drawn from DocTokenLists, a few queries, every k in -MaxK..MaxK.        *)
(***************************************************************************)
DocTokenLists == {<<>>, <<"ai">>, <<"x">>, <<"ai", "x">>, <<"ai", "ai", "x">>}

DocIds == <<"d1", "d2", "d3", "d4", "d5", "d6">>

SearchCorpora ==
    {[i \in 1..Len(toks) |-> [id |-> DocIds[i], tokens |-> toks[i]]] :
        toks \in BoundedSeq(DocTokenLists, MaxDocs)}

SearchQueries == {<<>>, <<"ai">>, <<"ai", SP, "X">>, <<"cloud">>}

SearchInit ==
    /\ FixedConfig /\ RunInit /\ WorldInit /\ ParseIdle /\ OutputIdle
    /\ s_query \in SearchQueries
    /\ s_corpus \in SearchCorpora
    /\ s_k \in (0 - MaxK)..MaxK
    /\ s_results = <<>>
    /\ s_pc = "start"

DoSearch ==
    /\ s_pc = "start"
    /\ s_results' = search_corpus(s_query, s_corpus, s_k)
    /\ s_pc' = "done"
    /\ UNCHANGED <<s_query, s_corpus, s_k, configVars, runVars, worldVars, parseVars,
                   outVars>>

SearchNext == DoSearch

SpecSearch == SearchInit /\ [][SearchNext]_vars

(***************************************************************************)
(* _parse_llm_output on its own: every completion of at most MaxOutLen     *)
(* tokens over the markers, the blank, the line break and a word, and the  *)
(* completions of LLMOutputs.                                              *)
(***************************************************************************)
OutputAlphabet == {ACTION_PREFIX, THOUGHT_PREFIX, SP, NL, "x"}

\* the marker alone on its line, the tool call on the following line
OutActionNextLine ==
    <<THOUGHT_PREFIX, SP, "hm", NL,
      ACTION_PREFIX, NL, "finish", "[", "answer", "=", QUOTE, "X", QUOTE, "]">>

Completions ==
    BoundedSeq(OutputAlphabet, MaxOutLen) \cup LLMOutputs \cup {OutActionNextLine}

OutputInit ==
    /\ FixedConfig /\ RunInit /\ WorldInit /\ ParseIdle /\ SearchIdle
    /\ o_out \in Completions
    /\ o_result = [thought |-> <<>>, action_line |-> <<>>]
    /\ o_pc = "start"

ParseOutput ==
    /\ o_pc = "start"
    /\ o_result' = parse_llm_output(o_out)
    /\ o_pc' = "done"
    /\ UNCHANGED <<o_out, configVars, runVars, worldVars, parseVars, searchVars>>

OutputNext == ParseOutput

SpecOutput == OutputInit /\ [][OutputNext]_vars

(***************************************************************************)
(* Properties.                                                             *)
(***************************************************************************)
LastStep == trajectory[Len(trajectory)]

\* the action line the output parser makes of the last completion
LastActionLine == parse_llm_output(last.out).action_line

\* C1: in a call of run in which neither the language model nor save_run
\* raises, exactly one terminal path runs (DONE through a finish action or
\* MAX_STEPS_REACHED through step exhaustion), save_run is called exactly
\* once, and the trajectory is the one save_run was given: no Step is
\* appended after that call.
C1_OneTerminalOneSave ==
    /\ Len(terminal) <= 1
    /\ save_calls <= 1
    /\ pc = "loop" => terminal = <<>> /\ save_calls = 0
    /\ pc = "returned" =>
          /\ Len(terminal) = 1
          /\ save_calls = 1
          /\ Len(saved) = 1
          /\ saved[1].result.trajectory = trajectory
          /\ result = <<saved[1].result>>
          /\ terminal[1] = "DONE" =>
                last.kind = "finish" /\ LastStep.observation = DONE_OBS
          /\ terminal[1] = "MAX_STEPS_REACHED" =>
                /\ last.kind = "exhausted"
                /\ \A i \in 1..Len(trajectory) : trajectory[i].observation # DONE_OBS
          /\ terminal[1] \in {"DONE", "MAX_STEPS_REACHED"}

C1_Witness ==
    pc = "returned" /\ terminal = <<"DONE">> /\ Len(trajectory) >= 2

\* C2: the trajectory never holds more than max_steps Steps, and while the
\* run is in its loop every transition keeps the Steps already appended, in
\* place and unchanged.
C2_LengthBoundAppendOnly ==
    /\ [](Len(trajectory) >= 0 /\ Len(trajectory) <= max_steps)
    /\ [][pc = "loop" =>
             /\ Len(trajectory') >= Len(trajectory)
             /\ SubSeq(trajectory', 1, Len(trajectory)) = trajectory]_vars

C2_Witness ==
    pc = "loop" /\ max_steps >= 2 /\ Len(trajectory) = max_steps

\* C3: a run that returns without any finish Step took the MAX_STEPS_REACHED
\* path with exactly max_steps Steps, and its answer is the fixed sentinel
\* when search never returned a result, and otherwise the text built from the
\* first 3 results that search returned, in step order.
C3_ExpectedFallback ==
    IF collected = <<>> THEN NO_FINAL_ANSWER
    ELSE <<"Based on search results: ">>
             \o JsonDumps(ResultsJson(
                    SubSeq(collected, 1, IF Len(collected) < 3 THEN Len(collected) ELSE 3)))

C3_NoFinishStep ==
    \A i \in 1..Len(trajectory) : trajectory[i].observation # DONE_OBS

C3_ExhaustionFallback ==
    /\ (pc = "loop" /\ Len(llm_calls) = max_steps /\ C3_NoFinishStep) =>
          /\ Len(trajectory) = max_steps
          /\ step_idx = max_steps
    /\ (pc = "returned" /\ C3_NoFinishStep) =>
          /\ terminal = <<"MAX_STEPS_REACHED">>
          /\ Len(trajectory) = max_steps
          /\ Len(result[1].trajectory) = max_steps
          /\ result[1].answer = C3_ExpectedFallback

C3_Witness ==
    /\ pc = "returned"
    /\ terminal = <<"MAX_STEPS_REACHED">>
    /\ Len(collected) > 3

\* C4 as stated: with max_steps = 1, the completion that holds only
\* finish[answer="X"] ends the run with one Step and the answer "X".
C4_BareFinishAnswersX ==
    (max_steps = 1 /\ pc = "returned" /\ last.out = OutBareFinish) =>
        Len(trajectory) = 1 /\ result[1].answer = <<"X">>

\* C4 amended: with max_steps = 1, the completion Action: finish[answer="X"]
\* ends the run with one Step and the answer "X"; the completion that holds
\* only finish[answer="X"], without the Action: marker, ends the run with one
\* Step and the placeholder answer "(no answer)".
C4_MarkedFinishAnswersX ==
    /\ (max_steps = 1 /\ pc = "returned" /\ last.out = OutActionFinish) =>
          /\ terminal = <<"DONE">>
          /\ Len(trajectory) = 1
          /\ result[1].answer = <<"X">>
    /\ (max_steps = 1 /\ pc = "returned" /\ last.out = OutBareFinish) =>
          /\ terminal = <<"DONE">>
          /\ Len(trajectory) = 1
          /\ result[1].answer = <<"(no answer)">>

C4_Witness ==
    max_steps = 1 /\ pc = "returned" /\ last.out = OutActionFinish

\* an action line with an opening bracket and no closing one
Unbalanced(line) == Contains(line, "[") /\ ~Contains(line, "]")

C5_UnbalancedStep ==
    /\ last.kind \in {"invalid", "search", "finish", "unknown"}
    /\ Unbalanced(LastActionLine)

\* C5 as stated: at every step, the last permitted one included, a step on an
\* unbalanced action line appends the one diagnostic Step and leaves the run
\* out of every terminal state.
C5_UnbalancedStaysRunning ==
    C5_UnbalancedStep =>
        /\ last.kind = "invalid"
        /\ LastStep.observation = INVALID_OBS
        /\ RunState = "RUNNING"

\* C5 amended: a step on an unbalanced action line appends exactly one Step,
\* with the fixed diagnostic observation, and takes no terminal path itself
\* (no finish, no save_run); the run stays RUNNING when a further step is
\* permitted, and is in MAX_STEPS_REACHED when this was the last permitted
\* step (always so with max_steps = 1).
C5_UnbalancedDiagnosticStep ==
    C5_UnbalancedStep =>
        /\ last.kind = "invalid"
        /\ Len(trajectory) = Len(llm_calls)
        /\ LastStep = Step(parse_llm_output(last.out).thought, LastActionLine, INVALID_OBS)
        /\ pc = "loop"
        /\ terminal = <<>>
        /\ save_calls = 0
        /\ Len(trajectory) < max_steps => RunState = "RUNNING"
        /\ Len(trajectory) = max_steps => RunState = "MAX_STEPS_REACHED"

C5_Witness ==
    /\ last.kind = "invalid"
    /\ last.out = OutUnbalanced
    /\ max_steps = 1
    /\ Len(trajectory) = 1

\* C6: for a positive k, search_corpus returns at most k results, and their
\* scores do not increase along the list.
C6_AtMostKNonIncreasing ==
    (s_pc = "done" /\ s_k >= 1) =>
        /\ Len(s_results) <= s_k
        /\ \A i, j \in 1..Len(s_results) :
              i < j => s_results[i].score >= s_results[j].score

C6_Witness ==
    /\ s_pc = "done"
    /\ s_k >= 2
    /\ Len(s_corpus) > s_k
    /\ Len(s_results) = s_k
    /\ s_results[1].score > s_results[2].score

\* C7: when the language-model call of step i raises, the exception leaves
\* run: nothing is returned, save_run has not been called, and the trajectory
\* still holds the i Steps of steps 0..i-1, those the prompt of the failed
\* call was built from.
C7_LLMFailurePropagates ==
    pc = "raised_llm" =>
        /\ result = <<>>
        /\ save_calls = 0
        /\ saved = <<>>
        /\ terminal = <<>>
        /\ Len(trajectory) = step_idx
        /\ Len(llm_calls) = step_idx + 1
        /\ llm_calls[Len(llm_calls)] = make_prompt(user_query, trajectory)

C7_Witness ==
    pc = "raised_llm" /\ Len(trajectory) >= 1

\* the three lines of one Step
C8_Rendering(step) ==
    <<THOUGHT_PREFIX, SP>> \o step.thought \o <<NL>>
        \o <<ACTION_PREFIX, SP>> \o step.action \o <<NL>>
        \o <<"Observation:", SP>> \o step.observation

RECURSIVE C8_RenderAll(_)
C8_RenderAll(steps) ==
    IF steps = <<>> THEN <<>>
    ELSE IF Len(steps) = 1 THEN C8_Rendering(steps[1])
    ELSE C8_Rendering(steps[1]) \o <<NL>> \o C8_RenderAll(Tail(steps))

\* C8: the prompt of the j-th language-model call of a run holds the
\* rendering of the first j-1 Steps of the trajectory, in order, and the
\* j-th call is never made before j-1 Steps are appended.
C8_PromptHoldsHistory ==
    /\ Len(llm_calls) <= Len(trajectory) + 1
    /\ \A j \in 1..Len(llm_calls) :
          IsSubstring(C8_RenderAll(SubSeq(trajectory, 1, j - 1)), llm_calls[j])

C8_Witness ==
    pc = "loop" /\ Len(llm_calls) >= 3 /\ Len(trajectory) = Len(llm_calls)

\* the tool names an unknown-tool observation lists after "Available tools: "
C9_NamedTools(obs) ==
    LET i == Find(obs, ". Available tools: ")
    IN  {obs[j] : j \in (i + 2)..Len(obs)} \ {",", SP}

\* C9: for every configured allowed-tool set, a step on a tool that is
\* neither search nor finish appends one Step whose observation names that
\* tool and the allowed tool set, and takes no terminal path.
C9_UnknownToolNamesAllowed ==
    last.kind = "unknown" =>
        /\ IsSubstring(parse_action(LastActionLine).name, LastStep.observation)
        /\ C9_NamedTools(LastStep.observation)
               = {allow_tools[i] : i \in 1..Len(allow_tools)}
        /\ pc = "loop"
        /\ terminal = <<>>

\* what the claim says of the tokens after the "Action:" prefix
C10_Rest == Tail(p_line)
C10_Opens == {i \in 1..Len(C10_Rest) : C10_Rest[i] = "["}
C10_Closes == {i \in 1..Len(C10_Rest) : C10_Rest[i] = "]"}
C10_Fails ==
    \/ p_line = <<>>
    \/ p_line[1] # "Action:"
    \/ C10_Opens = {}
    \/ C10_Closes = {}
    \/ \A i \in C10_Opens, j \in C10_Closes : j < i

\* C10: parse_action returns None exactly when the line does not start with
\* "Action:", or has no "[" or no "]" after it, or has its last "]" before
\* its first "["; otherwise it returns a pair, with an empty args mapping
\* when nothing but blanks stands between the brackets.
C10_NoneExactlyWhen ==
    p_pc = "done" =>
        /\ p_result.ok = ~C10_Fails
        /\ (~C10_Fails /\
              \A n \in 1..Len(C10_Rest) :
                  (\E i \in C10_Opens : i < n) /\ (\E j \in C10_Closes : n < j)
                      => C10_Rest[n] = SP)
             => DOMAIN p_result.args = {}

C10_Witness ==
    /\ p_pc = "done"
    /\ p_line = <<"Action:", "x", "[", "]">>
    /\ p_result.ok
    /\ p_result.name = <<"x">>

\* two writes of save_run fall in the same clock second
C11_SameSecond(i, j) ==
    save_log[i].at \div TICKS_PER_SECOND = save_log[j].at \div TICKS_PER_SECOND

\* the last write of save_run in the clock second of write i
C11_LatestInSecond(i) ==
    CHOOSE j \in 1..Len(save_log) :
        /\ C11_SameSecond(i, j)
        /\ \A n \in 1..Len(save_log) : C11_SameSecond(i, n) => n <= j

\* C11: two runs that terminate in the same clock second write the same
\* path, and the file then holds the payload of the later run alone; runs
\* that terminate in different seconds write different paths, so neither
\* overwrites the other.
C11_SecondKeyedFile ==
    \A i \in 1..Len(save_log) :
        /\ \A j \in 1..Len(save_log) :
               C11_SameSecond(i, j) <=> save_log[j].path = save_log[i].path
        /\ save_log[i].path \in DOMAIN files
        /\ files[save_log[i].path] = save_log[C11_LatestInSecond(i)].payload

C11_Witness ==
    /\ pc = "returned"
    /\ Len(save_log) = 2
    /\ C11_SameSecond(1, 2)
    /\ save_log[1].at < save_log[2].at
    /\ save_log[1].payload # save_log[2].payload
    /\ files[save_log[1].path] = save_log[2].payload

\* the first "Action:" marker of the completion, and the first line break
\* after it (or the position after the last token)
C12_FirstMarker ==
    CHOOSE i \in 1..Len(o_out) :
        o_out[i] = "Action:" /\ \A j \in 1..(i - 1) : o_out[j] # "Action:"
C12_LineStop ==
    LET brk == {j \in (C12_FirstMarker + 1)..Len(o_out) : o_out[j] = NL}
    IN  IF brk = {} THEN Len(o_out) + 1
        ELSE CHOOSE j \in brk : \A j2 \in brk : j <= j2
C12_SameLineText ==
    [n \in 1..(C12_LineStop - C12_FirstMarker - 1) |-> o_out[C12_FirstMarker + n]]

\* C12: for every completion that contains "Action:", the action line is
\* "Action: " followed by the trimmed text that stands on the line of the
\* first "Action:" marker, between the marker and the next line break or the
\* end of the completion, also when that text is empty.
C12_ActionLineIsMarkerLine ==
    (o_pc = "done" /\ \E i \in 1..Len(o_out) : o_out[i] = "Action:") =>
        o_result.action_line = <<"Action:", SP>> \o Strip(C12_SameLineText)

\* C13: the text between the brackets is split on top-level commas only, so
\* for every value V, commas included, the line Action: finish[answer="V"]
\* parses to the tool finish with args["answer"] = V, exactly one pair of
\* surrounding double quotes removed.
C13_QuotedAnswerWhole ==
    p_pc = "done" =>
        \A v \in QuotedAnswers :
            p_line = FinishLine(v) =>
                /\ p_result.ok
                /\ p_result.name = <<"finish">>
                /\ <<"answer">> \in DOMAIN p_result.args
                /\ p_result.args[<<"answer">>] = v

\* the (score, document index) pairs of the corpus for the query, and the
\* place of a pair in the descending order of (score, index)
C14_Pairs == {Scored(s_query, s_corpus)[n] : n \in 1..Len(s_corpus)}
C14_Place(p) ==
    1 + Cardinality({q \in C14_Pairs : q[1] > p[1] \/ (q[1] = p[1] /\ q[2] > p[2])})

\* C14: the documents are ranked by (score, document index) in descending
\* order, so that of two documents with the same score the one with the
\* larger index in the corpus comes first, and the returned list is exactly
\* the first k entries of that ranking (k not negative).
C14_RankedByScoreThenIndex ==
    (s_pc = "done" /\ s_k >= 0) =>
        /\ Len(s_results) = (IF s_k < Len(s_corpus) THEN s_k ELSE Len(s_corpus))
        /\ \A n \in 1..Len(s_results) :
              \E p \in C14_Pairs :
                  /\ C14_Place(p) = n
                  /\ s_results[n].id = s_corpus[p[2]].id
                  /\ s_results[n].score = p[1]

C14_Witness ==
    /\ s_pc = "done"
    /\ s_k = 2
    /\ Len(s_corpus) > 2
    /\ Len(s_results) = 2
    /\ s_results[1].score = s_results[2].score
    /\ s_results[1].score > 0
    /\ s_results[1].id = s_corpus[3].id
    /\ s_results[2].id = s_corpus[1].id

\* the number of results in the observation of the last Step
C15_ResultCount == Len(ResultsIn(LastStep.observation))

\* C15: whatever the k argument of a search action is (missing, not an
\* integer, zero, negative), the observation of the search Step holds at
\* most max(k, 0) results when k is an integer, and at most 3 otherwise.
C15_ResultCountBounded ==
    last.kind = "search" =>
        LET args == parse_action(LastActionLine).args
        IN  IF <<"k">> \in DOMAIN args /\ IsIntText(args[<<"k">>])
            THEN C15_ResultCount <= Max(IntOf(args[<<"k">>]), 0)
            ELSE C15_ResultCount <= 3

\* C16: in every sequence of calls of run on the same agent, each call
\* starts from an empty trajectory, so that the trajectory holds one Step
\* for each completion of this call and the first prompt of the call shows
\* no history; and every result dictionary an earlier call returned still
\* reads as it did at its return.
C16_RunsAreIndependent ==
    /\ pc \in {"loop", "returned", "raised_io"} => Len(trajectory) = Len(llm_calls)
    /\ pc = "raised_llm" => Len(trajectory) + 1 = Len(llm_calls)
    /\ llm_calls # <<>> => llm_calls[1] = make_prompt(user_query, <<>>)
    /\ pc = "returned" => Len(result[1].trajectory) = Len(llm_calls)
    /\ \A i \in 1..Len(held) :
          HeldView(held[i]) = Final(held[i].answer, held[i].steps)

C16_Witness ==
    /\ runs = 2
    /\ pc = "returned"
    /\ Len(held) = 2
    /\ Len(held[1].steps) = 2
    /\ Len(held[2].steps) = 1
    /\ HeldView(held[1]).trajectory = held[1].steps
    /\ result[1].trajectory = held[2].steps

=============================================================================
